---- MODULE Spec2Model ----
(***************************************************************************)
(* SafePM: the vulnerability-gated `install` command.                      *)
(*                                                                         *)
(* The repository holds two builds of the command line tool:               *)
(*   src/index.js          the first build: no --scan, no prompt (flagged  *)
(*                         packages always abort the installation);        *)
(*   src/unnamed/part_000  the later build: --scan, interactive prompts,   *)
(*                         uninstall.                                      *)
(* One run of the `install` action is modelled, one step per continuation  *)
(* of the async handler (the code between two awaits that wait for the     *)
(* outside world) and per child-process event.                             *)
(***************************************************************************)
EXTENDS Integers, Sequences, FiniteSets, TLC

VARIABLES
    build,            \* which build of the tool runs
    scan,             \* options.scan
    pkgs,             \* the CLI package arguments
    manifest,         \* what reading package.json gave (input, recorded)
    slots,            \* fetchPackageVersions: one promise per argument
    packagesToCheck,  \* the candidate list
    oracleRequests,   \* the query batches POSTed to the oracle
    oracleOutcome,    \* what the request gave (input, recorded)
    vulnResults,      \* vulnsCheck's return value
    foundVulns,       \* the flagged entries
    rendered,         \* package names printed by the report
    badges,           \* severity badges printed by the report, one per line
    reports,          \* status messages, in order
    prompts,          \* number of select() prompts shown
    action,           \* the operator's choice
    uninstallCalls,   \* name lists passed to `npm uninstall`
    installCalls,     \* argument lists passed to spawn("npm", ["install", ...])
    childState,       \* the spawned child process
    pc,               \* where the run is
    exitCode,         \* the process's exit code (meaningful once pc = "exited")
    fault             \* an uncaught exception or unhandled rejection ended the run

vars == <<build, scan, pkgs, manifest, slots, packagesToCheck, oracleRequests,
          oracleOutcome, vulnResults, foundVulns, rendered, badges, reports,
          prompts, action, uninstallCalls, installCalls, childState, pc, exitCode,
          fault>>

\* ------------------------------------------------------------------ bounds
MaxArgs == 2      \* longest CLI package argument list
MaxGroup == 1     \* most entries of one dependency group of the manifest
MaxResults == 2   \* longest `results` array of an oracle response
MaxVersionLen == 2  \* longest version string of the manifests of SpecManifest
MaxVulns == 2     \* most records of one `vulns` array of the responses of SpecReport

\* ------------------------------------------------------ values of the model
Builds == {"index.js", "part_000"}
Names == {"a", "b"}
\* version strings, as sequences of characters
ManifestVersions == { <<"^", "1">>, <<"2">> }
RegistryVersions == { <<"1">>, <<"2">> }

PackageRef(n, v) == [defined |-> TRUE, name |-> n, version |-> v]
\* packagesToCheck[i] for an index past the end of the list
Undefined == [defined |-> FALSE, name |-> "", version |-> <<>>]

RECURSIVE SeqsUpTo(_, _)
SeqsUpTo(S, n) ==
    IF n = 0 THEN { <<>> }
    ELSE LET shorter == SeqsUpTo(S, n - 1)
         IN  shorter \cup { Append(s, x) : s \in shorter, x \in S }

Range(s) == { s[i] : i \in 1..Len(s) }
DistinctNames(s) == \A i, j \in 1..Len(s) : s[i].name = s[j].name => i = j

RECURSIVE MapNames(_)
MapNames(s) == IF s = <<>> THEN <<>> ELSE <<s[1].name>> \o MapNames(Tail(s))

\* --------------------------------------------------------------- manifest
\* One dependency group of package.json: an object, so its keys are distinct
\* and keep their insertion order.
Groups ==
    { g \in SeqsUpTo({ PackageRef(n, v) : n \in Names, v \in ManifestVersions }, MaxGroup) :
        DistinctNames(g) }

\* What reading package.json can give: a read error (missing file, I/O
\* failure), text that JSON.parse rejects, or the two dependency groups.
ManifestOutcomes ==
    { [kind |-> k, dependencies |-> <<>>, devDependencies |-> <<>>] :
        k \in {"readError", "parseError"} }
    \cup { [kind |-> "ok", dependencies |-> d, devDependencies |-> dd] :
             d \in Groups, dd \in Groups }

\* Manifests whose runtime group declares any version string over the
\* characters "^", "~" and "1", the empty one included.
VersionChars == {"^", "~", "1"}
WideVersions == SeqsUpTo(VersionChars, MaxVersionLen)

WideGroups ==
    { g \in SeqsUpTo({ PackageRef(n, v) : n \in Names, v \in WideVersions }, MaxGroup) :
        DistinctNames(g) }

WideManifestOutcomes ==
    { [kind |-> k, dependencies |-> <<>>, devDependencies |-> <<>>] :
        k \in {"readError", "parseError"} }
    \cup { [kind |-> "ok", dependencies |-> d, devDependencies |-> dd] :
             d \in WideGroups, dd \in Groups }

HasName(g, n) == \E i \in 1..Len(g) : g[i].name = n
VersionIn(g, n) == g[CHOOSE i \in 1..Len(g) : g[i].name = n].version

\* { ...json.dependencies, ...json.devDependencies } and Object.entries: the
\* keys of the first group in their order, each with the second group's value
\* when the second group has the key too, then the second group's new keys.
SpreadMerge_FirstWins(d, dd) == d \o SelectSeq(dd, LAMBDA e : ~HasName(d, e.name))

SpreadMerge(d, dd) ==
    [i \in 1..Len(d) |->
        IF HasName(dd, d[i].name) THEN PackageRef(d[i].name, VersionIn(dd, d[i].name))
        ELSE d[i]]
    \o SelectSeq(dd, LAMBDA e : ~HasName(d, e.name))

extractPkgNames(m) ==
    IF m.kind = "ok" THEN SpreadMerge(m.dependencies, m.devDependencies) ELSE <<>>

\* ----------------------------------------------------------------- oracle
\* version.replace('^', '').replace('~', ''): String.prototype.replace with
\* a string pattern removes the first occurrence, wherever it is.
RECURSIVE RemoveFirst(_, _)
RemoveFirst(s, c) ==
    IF s = <<>> THEN <<>>
    ELSE IF s[1] = c THEN Tail(s)
    ELSE <<s[1]>> \o RemoveFirst(Tail(s), c)

StripRange(v) == RemoveFirst(RemoveFirst(v, "^"), "~")

Queries(pkgList) ==
    [i \in 1..Len(pkgList) |->
        [version |-> StripRange(pkgList[i].version),
         name |-> pkgList[i].name, ecosystem |-> "npm"]]

\* One vulnerability record of a response; database_specific.severity is
\* <<>> when absent and <<string>> when present.
VulnRecord(id, severity) == [id |-> id, severity |-> severity]
VulnRecords == { VulnRecord("GHSA-1", <<"HIGH">>) }

\* The `vulns` field of one result: absent (or another falsy value), a
\* sequence of records (possibly empty), or a truthy value that is no array.
VulnsShapes ==
    { [kind |-> "absent", items |-> <<>>], [kind |-> "other", items |-> <<>>] }
    \cup { [kind |-> "seq", items |-> s] : s \in SeqsUpTo(VulnRecords, 1) }

\* What the request to the oracle can give.
OracleOutcomes ==
    { [kind |-> k, results |-> <<>>] :
        k \in {"networkError", "non2xx", "malformedBody", "noResults"} }
    \cup { [kind |-> "results", results |-> r] : r \in SeqsUpTo(VulnsShapes, MaxResults) }

\* Responses with one result per candidate (two candidates), the records
\* carrying any severity: the four words, other strings, none.
WideSeverities ==
    { <<>> } \cup { <<w>> : w \in {"CRITICAL", "HIGH", "MODERATE", "LOW", "critical", ""} }

WideVulnsShapes ==
    { [kind |-> "absent", items |-> <<>>] }
    \cup { [kind |-> "seq", items |-> r] :
             r \in SeqsUpTo({ VulnRecord("GHSA-1", w) : w \in WideSeverities }, MaxVulns) }

WideOracleOutcomes ==
    { [kind |-> "results", results |-> <<x, y>>] : x \in WideVulnsShapes, y \in WideVulnsShapes }

Null == [isNull |-> TRUE, hasResults |-> FALSE, results |-> <<>>]

\* No request was sent: the queries could not be built.
QueryThrew == [kind |-> "queryThrew", results |-> <<>>]

\* vulnsCheck's return value: null when fetch rejects, when response.ok is
\* false and when response.json() rejects; the parsed body otherwise.
vulnsCheck(o) ==
    IF o.kind \in {"queryThrew", "networkError", "non2xx", "malformedBody"} THEN Null
    ELSE [isNull |-> FALSE, hasResults |-> o.kind = "results", results |-> o.results]

\* ----------------------------------------------------------------- report
\* !vulnResults || !vulnResults.results
ApiFailed_NullPasses(vr) == ~vr.isNull /\ ~vr.hasResults

ApiFailed(vr) == vr.isNull \/ ~vr.hasResults

\* r => r.vulns: every value but undefined, null, 0, "" and NaN is truthy,
\* the empty array included.
Truthy(vulns) == vulns.kind # "absent"

\* results.map((r, i) => ({...r, originalPkg: packagesToCheck[i]}))
Attach(results, pkgList) ==
    [i \in 1..Len(results) |->
        [vulns |-> results[i],
         originalPkg |-> IF i <= Len(pkgList) THEN pkgList[i] ELSE Undefined]]

FoundVulns(results, pkgList) ==
    SelectSeq(Attach(results, pkgList), LAMBDA r : Truthy(r.vulns))

\* Rendering one flagged entry throws a TypeError when originalPkg is
\* undefined (.name of undefined), and in part_000 when vulns has no forEach.
RenderThrows(b, v) ==
    \/ ~v.originalPkg.defined
    \/ b = "part_000" /\ v.vulns.kind # "seq"

\* The package names printed by the forEach over foundVulns, up to the first
\* entry whose rendering throws.
RECURSIVE Rendered(_, _)
Rendered(b, found) ==
    IF found = <<>> THEN <<>>
    ELSE IF ~found[1].originalPkg.defined THEN <<>>
    ELSE IF RenderThrows(b, found[1]) THEN <<found[1].originalPkg.name>>
    ELSE <<found[1].originalPkg.name>> \o Rendered(b, Tail(found))

\* vuln.database_specific?.severity || "UNKNOWN": an absent severity and the
\* empty string give "UNKNOWN".
SeverityText(vuln) ==
    IF vuln.severity = <<>> \/ vuln.severity[1] = "" THEN "UNKNOWN" ELSE vuln.severity[1]

SeverityColor_AnyCase(severity) ==
    CASE severity \in {"CRITICAL", "critical"} -> "bgRed.white.bold"
      [] severity \in {"HIGH", "high"} -> "red"
      [] severity \in {"MODERATE", "moderate"} -> "yellow"
      [] severity \in {"LOW", "low"} -> "blue"
      [] OTHER -> "white"

\* severityColor: chalk.white unless the text is one of the four words.
SeverityColor(severity) ==
    CASE severity = "CRITICAL" -> "bgRed.white.bold"
      [] severity = "HIGH" -> "red"
      [] severity = "MODERATE" -> "yellow"
      [] severity = "LOW" -> "blue"
      [] OTHER -> "white"

\* `   • [${severityColor(severity)}] ...`, one line per record of vulns
BadgeLines(items) ==
    [j \in 1..Len(items) |->
        [color |-> SeverityColor(SeverityText(items[j])),
         text |-> SeverityText(items[j]),
         id |-> items[j].id]]

\* The badge lines printed by the forEach over foundVulns, up to the first
\* entry whose rendering throws; index.js prints the number of issues only.
RECURSIVE Badges(_, _)
Badges(b, found) ==
    IF b = "index.js" \/ found = <<>> THEN <<>>
    ELSE IF RenderThrows(b, found[1]) THEN <<>>
    ELSE BadgeLines(found[1].vulns.items) \o Badges(b, Tail(found))

AnyThrows(b, found) == \E i \in 1..Len(found) : RenderThrows(b, found[i])

FlaggedNames(found) == [i \in 1..Len(found) |-> found[i].originalPkg.name]

\* ------------------------------------------------------------ registry
Pending == [state |-> "pending", name |-> "", version |-> <<>>]
Failed == [state |-> "null", name |-> "", version |-> <<>>]
Resolved(n, v) == [state |-> "value", name |-> n, version |-> v]

\* info.name and info.version when stdout parses to JSON that is no object
\* with these fields (an array, when the reference matches several versions;
\* a string): both are undefined.
NoName == "undefined"
NoVersion == <<"undefined">>

\* What one `npm view` can give: exec rejects or JSON.parse throws (null),
\* an object with name and version, or other JSON.
RegistryOutcomes(rawArg) ==
    {Failed} \cup { Resolved(rawArg, v) : v \in RegistryVersions }
    \cup {Resolved(NoName, NoVersion)}

\* results.filter(item => item !== null), as candidates
RECURSIVE NonNull(_)
NonNull(s) ==
    IF s = <<>> THEN <<>>
    ELSE IF s[1].state = "value"
         THEN <<PackageRef(s[1].name, s[1].version)>> \o NonNull(Tail(s))
         ELSE NonNull(Tail(s))

\* ------------------------------------------------------------ the run
Init ==
    /\ build \in Builds
    /\ scan \in (IF build = "part_000" THEN BOOLEAN ELSE {FALSE})
    /\ pkgs \in SeqsUpTo(Names, MaxArgs)
    /\ manifest = [kind |-> "unread", dependencies |-> <<>>, devDependencies |-> <<>>]
    /\ slots = <<>>
    /\ packagesToCheck = <<>>
    /\ oracleRequests = <<>>
    /\ oracleOutcome = [kind |-> "none", results |-> <<>>]
    /\ vulnResults = Null
    /\ foundVulns = <<>>
    /\ rendered = <<>>
    /\ badges = <<>>
    /\ reports = <<>>
    /\ prompts = 0
    /\ action = "none"
    /\ uninstallCalls = <<>>
    /\ installCalls = <<>>
    /\ childState = "none"
    /\ pc = "start"
    /\ exitCode = 0
    /\ fault = FALSE

\* The ways a continuation of the handler ends.  Each sets
\* reports, pc, exitCode, fault, installCalls and childState.

\* The handler returns with nothing pending: the process ends with the
\* exit code it has (process.exitCode is never set: 0).
Return(rep) ==
    /\ reports' = rep
    /\ pc' = "exited"
    /\ UNCHANGED <<exitCode, fault, installCalls, childState>>

\* process.exit(code)
Exit(rep, code) ==
    /\ reports' = rep
    /\ pc' = "exited"
    /\ exitCode' = code
    /\ UNCHANGED <<fault, installCalls, childState>>

\* An exception nobody catches: program.parse() does not await the action's
\* promise, and an 'error' event without listener is thrown.  Node reports
\* it and exits with code 1.
Throw(rep) ==
    /\ reports' = rep
    /\ pc' = "exited"
    /\ exitCode' = 1
    /\ fault' = TRUE
    /\ UNCHANGED <<installCalls, childState>>

\* spawn("npm", ["install", ...pkgs])
Handover_ResolvedNames(rep) ==
    /\ reports' = Append(rep, "handover")
    /\ installCalls' = Append(installCalls, MapNames(packagesToCheck))
    /\ childState' = "running"
    /\ pc' = "child"
    /\ UNCHANGED <<exitCode, fault>>

Handover(rep) ==
    /\ reports' = Append(rep, "handover")
    /\ installCalls' = Append(installCalls, pkgs)
    /\ childState' = "running"
    /\ pc' = "child"
    /\ UNCHANGED <<exitCode, fault>>

\* What follows processVulnerabilityReport in the action.
AfterReport_NoScanReturn(rep) == Handover(rep)

AfterReport(rep) ==
    IF scan THEN Return(Append(rep, "scanComplete")) ELSE Handover(rep)

\* vulnsCheck(packagesToCheck) up to its fetch.  Building the queries throws
\* inside the try block when a version is undefined (.replace of undefined):
\* no request is sent then, and vulnsCheck returns null.
QueryThrows(list) == \E i \in 1..Len(list) : list[i].version = NoVersion

SendQuery(list) ==
    /\ oracleRequests' =
          IF QueryThrows(list) THEN oracleRequests
          ELSE Append(oracleRequests, Queries(list))
    /\ pc' = "oracle"

\* ---- the action, from its start to its first await -----------------
\* options.scan || isDefaultInstall: extractPkgNames() reads the manifest.
\* part_000 returns when the list is empty; index.js goes on with it.
ReadManifestFrom(outcomes) ==
    /\ pc = "start"
    /\ scan \/ pkgs = <<>>
    /\ \E m \in outcomes :
         LET list == extractPkgNames(m) IN
         /\ manifest' = m
         /\ packagesToCheck' = list
         /\ IF build = "part_000" /\ list = <<>>
            THEN /\ Return(Append(reports, "noPackages"))
                 /\ UNCHANGED oracleRequests
            ELSE /\ reports' = Append(reports, "prepared")
                 /\ SendQuery(list)
                 /\ UNCHANGED <<exitCode, fault, installCalls, childState>>
    /\ UNCHANGED <<badges, build, scan, pkgs, slots, oracleOutcome, vulnResults, foundVulns,
                   rendered, prompts, action, uninstallCalls>>

ReadManifest == ReadManifestFrom(ManifestOutcomes)

\* fetchPackageVersions(pkgs): pkgNames.map starts one `npm view` per
\* argument; all of them are pending at the await of Promise.all.
StartResolve_IgnoresScan ==
    /\ pc = "start"
    /\ pkgs # <<>>
    /\ slots' = [i \in 1..Len(pkgs) |-> Pending]
    /\ pc' = "resolving"
    /\ UNCHANGED <<badges, build, scan, pkgs, manifest, packagesToCheck, oracleRequests,
                   oracleOutcome, vulnResults, foundVulns, rendered, reports, prompts,
                   action, uninstallCalls, installCalls, childState, exitCode, fault>>

StartResolve ==
    /\ pc = "start"
    /\ ~scan /\ pkgs # <<>>
    /\ slots' = [i \in 1..Len(pkgs) |-> Pending]
    /\ pc' = "resolving"
    /\ UNCHANGED <<badges, build, scan, pkgs, manifest, packagesToCheck, oracleRequests,
                   oracleOutcome, vulnResults, foundVulns, rendered, reports, prompts,
                   action, uninstallCalls, installCalls, childState, exitCode, fault>>

\* One `npm view` ends, in any order: its promise resolves to {name, version}
\* or, when exec or JSON.parse throws, to null.  When it was the last one
\* pending, Promise.all resolves and the action goes on: filter, report,
\* vulnsCheck.
ResolveOne(i) ==
    /\ pc = "resolving"
    /\ i \in 1..Len(slots)
    /\ slots[i].state = "pending"
    /\ \E r \in RegistryOutcomes(pkgs[i]) :
         LET results == [slots EXCEPT ![i] = r] IN
         /\ slots' = results
         /\ IF \E j \in 1..Len(results) : results[j].state = "pending"
            THEN UNCHANGED <<packagesToCheck, reports, oracleRequests, pc>>
            ELSE /\ packagesToCheck' = NonNull(results)
                 /\ reports' = Append(reports, "prepared")
                 /\ SendQuery(NonNull(results))
    /\ UNCHANGED <<badges, build, scan, pkgs, manifest, oracleOutcome, vulnResults, foundVulns,
                   rendered, prompts, action, uninstallCalls, installCalls, childState,
                   exitCode, fault>>

\* ---- the oracle answers: vulnsCheck returns, the report is made -----
\* part_000: processVulnerabilityReport up to its select(), or through to
\* the end of the action when nothing is flagged.
\* index.js: the same classification; flagged packages end the process.
OracleReturnFrom(outcomes) ==
    /\ pc = "oracle"
    /\ \E o \in (IF oracleRequests = <<>> THEN {QueryThrew} ELSE outcomes) :
         LET vr == vulnsCheck(o)
             failed == ApiFailed(vr)
             found == IF failed THEN <<>> ELSE FoundVulns(vr.results, packagesToCheck)
             warned == Append(reports, "found")
         IN
         /\ oracleOutcome' = o
         /\ vulnResults' = vr
         /\ foundVulns' = found
         /\ rendered' = Rendered(build, found)
         /\ badges' = Badges(build, found)
         /\ IF failed THEN
                /\ AfterReport(Append(reports, "apiError"))
                /\ UNCHANGED prompts
            ELSE IF found = <<>> THEN
                /\ AfterReport(Append(reports, "clean"))
                /\ UNCHANGED prompts
            ELSE IF AnyThrows(build, found) THEN
                /\ Throw(warned)
                /\ UNCHANGED prompts
            ELSE IF build = "index.js" THEN
                /\ Exit(Append(warned, "aborting"), 1)
                /\ UNCHANGED prompts
            ELSE
                /\ reports' = warned
                /\ prompts' = prompts + 1
                /\ pc' = "prompt"
                /\ UNCHANGED <<exitCode, fault, installCalls, childState>>
    /\ UNCHANGED <<build, scan, pkgs, manifest, slots, packagesToCheck, oracleRequests,
                   action, uninstallCalls>>

OracleReturn == OracleReturnFrom(OracleOutcomes)

\* ---- the operator answers the prompt --------------------------------
ChooseScan_UninstallAll ==
    /\ pc = "prompt"
    /\ scan
    /\ \E a \in {"uninstall", "ignore"} :
         /\ action' = a
         /\ IF a = "uninstall"
            THEN /\ uninstallCalls' = Append(uninstallCalls, MapNames(packagesToCheck))
                 /\ pc' = "uninstalling"
                 /\ UNCHANGED <<reports, exitCode, fault, installCalls, childState>>
            ELSE /\ AfterReport(reports)
                 /\ UNCHANGED uninstallCalls
    /\ UNCHANGED <<badges, build, scan, pkgs, manifest, slots, packagesToCheck, oracleRequests,
                   oracleOutcome, vulnResults, foundVulns, rendered, prompts>>

ChooseInstall_AbortFallsThrough ==
    /\ pc = "prompt"
    /\ ~scan
    /\ \E a \in {"abort", "ignore"} :
         /\ action' = a
         /\ IF a = "abort"
            THEN AfterReport(Append(reports, "aborting"))
            ELSE AfterReport(reports)
    /\ UNCHANGED <<badges, build, scan, pkgs, manifest, slots, packagesToCheck, oracleRequests,
                   oracleOutcome, vulnResults, foundVulns, rendered, prompts,
                   uninstallCalls>>

\* Scan mode: "uninstall" starts `npm uninstall <flagged names>`; "ignore"
\* returns true, and the action ends at "Scan complete."
ChooseScan ==
    /\ pc = "prompt"
    /\ scan
    /\ \E a \in {"uninstall", "ignore"} :
         /\ action' = a
         /\ IF a = "uninstall"
            THEN /\ uninstallCalls' = Append(uninstallCalls, FlaggedNames(foundVulns))
                 /\ pc' = "uninstalling"
                 /\ UNCHANGED <<reports, exitCode, fault, installCalls, childState>>
            ELSE /\ AfterReport(reports)
                 /\ UNCHANGED uninstallCalls
    /\ UNCHANGED <<badges, build, scan, pkgs, manifest, slots, packagesToCheck, oracleRequests,
                   oracleOutcome, vulnResults, foundVulns, rendered, prompts>>

\* Install mode: "abort" is process.exit(1); "ignore" returns true and the
\* action goes on to spawn npm install.
ChooseInstall ==
    /\ pc = "prompt"
    /\ ~scan
    /\ \E a \in {"abort", "ignore"} :
         /\ action' = a
         /\ IF a = "abort"
            THEN Exit(Append(reports, "aborting"), 1)
            ELSE AfterReport(reports)
    /\ UNCHANGED <<badges, build, scan, pkgs, manifest, slots, packagesToCheck, oracleRequests,
                   oracleOutcome, vulnResults, foundVulns, rendered, prompts,
                   uninstallCalls>>

\* `npm uninstall` ends: uninstallPackages reports success or failure and
\* returns either way; process.exit(0) follows.
UninstallDone_FailureExits1 ==
    /\ pc = "uninstalling"
    /\ \E ok \in BOOLEAN :
         IF ok THEN Exit(Append(reports, "uninstalled"), 0)
         ELSE Exit(Append(reports, "uninstallFailed"), 1)
    /\ UNCHANGED <<badges, build, scan, pkgs, manifest, slots, packagesToCheck, oracleRequests,
                   oracleOutcome, vulnResults, foundVulns, rendered, prompts, action,
                   uninstallCalls>>

UninstallDone ==
    /\ pc = "uninstalling"
    /\ \E ok \in BOOLEAN :
         Exit(Append(reports, IF ok THEN "uninstalled" ELSE "uninstallFailed"), 0)
    /\ UNCHANGED <<badges, build, scan, pkgs, manifest, slots, packagesToCheck, oracleRequests,
                   oracleOutcome, vulnResults, foundVulns, rendered, prompts, action,
                   uninstallCalls>>

\* ---- the child process ----------------------------------------------
\* The child could not be spawned: it emits 'error'.  index.js logs it;
\* part_000 has no 'error' listener, so the event is thrown.
ChildError ==
    /\ pc = "child"
    /\ childState = "running"
    /\ IF build = "index.js"
       THEN /\ reports' = Append(reports, "childError")
            /\ childState' = "errored"
            /\ UNCHANGED <<pc, exitCode, fault, installCalls>>
       ELSE Throw(reports)
    /\ UNCHANGED <<badges, build, scan, pkgs, manifest, slots, packagesToCheck, oracleRequests,
                   oracleOutcome, vulnResults, foundVulns, rendered, prompts, action,
                   uninstallCalls>>

\* The child closes: code 0 reports success, any other code failure (a child
\* that could not be spawned closes with a non-zero code).  The handler sets
\* no exit code; the process then ends, nothing being left to wait for.
ChildClose ==
    /\ pc = "child"
    /\ childState \in {"running", "errored"}
    /\ \E ok \in (IF childState = "running" THEN BOOLEAN ELSE {FALSE}) :
         /\ reports' = Append(reports, IF ok THEN "success" ELSE "failed")
         /\ childState' = IF ok THEN "closedOk" ELSE "closedFail"
    /\ pc' = "exited"
    /\ UNCHANGED <<badges, build, scan, pkgs, manifest, slots, packagesToCheck, oracleRequests,
                   oracleOutcome, vulnResults, foundVulns, rendered, prompts, action,
                   uninstallCalls, installCalls, exitCode, fault>>

Next ==
    \/ ReadManifest
    \/ StartResolve
    \/ \E i \in 1..MaxArgs : ResolveOne(i)
    \/ OracleReturn
    \/ ChooseScan
    \/ ChooseInstall
    \/ UninstallDone
    \/ ChildError
    \/ ChildClose

Spec == Init /\ [][Next]_vars

\* The report alone, over responses with any severities: from the state of a
\* run of part_000 that read two candidates from the manifest and waits for
\* the oracle.
ReportManifest ==
    [kind |-> "ok",
     dependencies |-> <<PackageRef("a", <<"^", "1">>)>>,
     devDependencies |-> <<PackageRef("b", <<"2">>)>>]

InitReport ==
    /\ build = "part_000"
    /\ scan \in BOOLEAN
    /\ pkgs = <<>>
    /\ manifest = ReportManifest
    /\ slots = <<>>
    /\ packagesToCheck = extractPkgNames(ReportManifest)
    /\ oracleRequests = <<Queries(extractPkgNames(ReportManifest))>>
    /\ oracleOutcome = [kind |-> "none", results |-> <<>>]
    /\ vulnResults = Null
    /\ foundVulns = <<>>
    /\ rendered = <<>>
    /\ badges = <<>>
    /\ reports = <<"prepared">>
    /\ prompts = 0
    /\ action = "none"
    /\ uninstallCalls = <<>>
    /\ installCalls = <<>>
    /\ childState = "none"
    /\ pc = "oracle"
    /\ exitCode = 0
    /\ fault = FALSE

ReportWide == OracleReturnFrom(WideOracleOutcomes)

SpecReport == InitReport /\ [][ReportWide]_vars

\* The manifest branch alone, over manifests with any version strings, for
\* a run without package arguments.
InitManifest == Init /\ pkgs = <<>>

ReadWideManifest == ReadManifestFrom(WideManifestOutcomes)

SpecManifest == InitManifest /\ [][ReadWideManifest]_vars

TypeOK ==
    /\ build \in Builds
    /\ scan \in BOOLEAN
    /\ pc \in {"start", "resolving", "oracle", "prompt", "uninstalling", "child", "exited"}
    /\ action \in {"none", "abort", "ignore", "uninstall"}
    /\ childState \in {"none", "running", "errored", "closedOk", "closedFail"}
    /\ exitCode \in {0, 1}
    /\ fault \in BOOLEAN
    /\ Len(oracleRequests) <= 1

\* ======================================================================
\* Properties
\* ======================================================================
OracleReturned == oracleOutcome.kind # "none"
Reported(msg) == \E i \in 1..Len(reports) : reports[i] = msg

\* C1: in install mode, once the operator has chosen "abort" on flagged
\* packages (non-null oracle result), npm install has not been spawned and is
\* never spawned, and the process has exited with code 1.
C1_AbortNeverInstalls ==
    (~scan /\ action = "abort") =>
        /\ ~vulnResults.isNull /\ foundVulns # <<>>
        /\ pc = "exited" /\ exitCode = 1
        /\ installCalls = <<>> /\ childState = "none"

C1_Witness ==
    /\ ~scan /\ action = "abort" /\ foundVulns # <<>>
    /\ pc = "exited" /\ exitCode = 1

\* C2: in install mode, when vulnsCheck returned null, the failure report is
\* emitted, no prompt is shown, "No known vulnerabilities found" is not
\* reported, and npm install is spawned with the CLI arguments (fail-open).
C2_NullFailsOpen ==
    (~scan /\ OracleReturned /\ vulnResults.isNull) =>
        /\ Reported("apiError") /\ ~Reported("clean") /\ ~Reported("found")
        /\ prompts = 0 /\ action = "none"
        /\ installCalls = <<pkgs>>
        /\ childState # "none"

C2_Witness ==
    /\ ~scan /\ OracleReturned /\ vulnResults.isNull
    /\ oracleOutcome.kind = "networkError"
    /\ installCalls = <<pkgs>> /\ pc = "child"

\* The names of the candidates at the positions of the response whose vulns
\* the report engine takes as flagged, read off the response.
FlaggedNameSet ==
    { packagesToCheck[i].name :
        i \in { j \in 1..Len(vulnResults.results) :
                  j <= Len(packagesToCheck) /\ vulnResults.results[j].kind # "absent" } }

\* C3: in scan mode, once the operator has chosen "uninstall", npm uninstall
\* has been called exactly once, with the names of the flagged packages (as
\* sets: the names the report printed, the flagged positions of the
\* response); the process then exits with code 0; npm install is never
\* spawned.
C3_UninstallFlagged ==
    (scan /\ action = "uninstall") =>
        /\ foundVulns # <<>>
        /\ Len(uninstallCalls) = 1
        /\ Range(uninstallCalls[1]) = Range(rendered)
        /\ Range(uninstallCalls[1]) = FlaggedNameSet
        /\ installCalls = <<>> /\ childState = "none"
        /\ pc \in {"uninstalling", "exited"}
        /\ pc = "exited" => exitCode = 0 /\ ~fault

C3_Witness ==
    /\ scan /\ action = "uninstall" /\ pc = "exited" /\ exitCode = 0
    /\ Len(packagesToCheck) = 2 /\ Len(foundVulns) = 1
    /\ uninstallCalls = << <<packagesToCheck[2].name>> >>

\* The oracle answered as its contract says: one result per candidate.
OracleAligned ==
    /\ oracleOutcome.kind = "results"
    /\ Len(oracleOutcome.results) = Len(packagesToCheck)

EmptyManifest ==
    /\ manifest.kind = "ok"
    /\ manifest.dependencies = <<>> /\ manifest.devDependencies = <<>>

\* C4: a default install (no package arguments, no --scan) over a manifest
\* without dependencies, the oracle skipped or answering as its contract
\* says, ends with an empty candidate list, the report "clean", and npm
\* install spawned once with no package arguments.
C4_EmptyManifestInstalls ==
    (/\ ~scan /\ pkgs = <<>> /\ EmptyManifest
     /\ ~OracleReturned \/ OracleAligned
     /\ pc = "exited") =>
        /\ packagesToCheck = <<>>
        /\ Reported("clean")
        /\ installCalls = << <<>> >>

\* The flagged list as the claim defines it: the positions whose vulns is a
\* non-empty sequence, in the response's order, each with its candidate.
NonEmptyVulns(v) == v.kind = "seq" /\ v.items # <<>>

ExpectedFlagged(results, pkgList) ==
    SelectSeq(Attach(results, pkgList), LAMBDA r : NonEmptyVulns(r.vulns))

\* C5: whenever the response has one result per candidate, the flagged list
\* holds exactly the positions whose vulns is a non-empty sequence, in the
\* response's order, each named by the candidate at its position.
C5_FlaggedIsNonEmptyVulns ==
    (OracleReturned /\ OracleAligned) =>
        foundVulns = ExpectedFlagged(oracleOutcome.results, packagesToCheck)

\* C6: a response whose number of results differs from the number of
\* candidates is handled as an oracle failure: failure report, nothing
\* flagged, no prompt, no "clean" report.
C6_MismatchIsFailure ==
    (/\ OracleReturned /\ oracleOutcome.kind = "results"
     /\ Len(oracleOutcome.results) # Len(packagesToCheck)) =>
        /\ Reported("apiError") /\ ~Reported("clean") /\ ~Reported("found")
        /\ foundVulns = <<>> /\ rendered = <<>>
        /\ prompts = 0 /\ ~fault

\* C7: vulnsCheck returns null for a network failure, a non-2xx status and a
\* body without `results`; a value it returns that is not null has the
\* results array.
C7_NullOnEveryFailure ==
    OracleReturned =>
        /\ oracleOutcome.kind \in {"networkError", "non2xx", "noResults"} => vulnResults.isNull
        /\ ~vulnResults.isNull => vulnResults.hasResults

\* C8: at the end of the run the exit code is 1 when the operator aborted and
\* when the npm install child closed with a non-zero code; it is 0 only when
\* neither happened and no fault ended the run.
C8_ExitCodes ==
    pc = "exited" =>
        /\ (action = "abort" \/ childState = "closedFail") => exitCode = 1
        /\ exitCode = 0 => (action # "abort" /\ childState # "closedFail" /\ ~fault)

\* C9: with --scan, npm install is never spawned, whatever the manifest, the
\* oracle's answer and the operator's choice; once the operator has chosen
\* "ignore", the run has ended normally (exit code 0, no fault) with neither
\* an install nor an uninstall call.
C9_ScanNeverInstalls ==
    scan =>
        /\ installCalls = <<>> /\ childState = "none"
        /\ ~Reported("handover")
        /\ action = "ignore" =>
              /\ pc = "exited" /\ exitCode = 0 /\ ~fault
              /\ uninstallCalls = <<>>
              /\ Reported("scanComplete")

C9_Witness ==
    /\ scan /\ action = "ignore" /\ pc = "exited"
    /\ foundVulns # <<>> /\ installCalls = <<>> /\ uninstallCalls = <<>>

\* C10: no run ends in an uncaught exception or unhandled rejection.
C10_NoUncaughtFault == ~fault

\* C11: in install mode, with packages flagged on a non-null oracle result,
\* npm install is spawned only after the operator chose "ignore"; once the
\* operator has chosen "ignore", npm install has been spawned with the CLI
\* arguments; and a clean report spawns npm install without any prompt.
C11_InstallOnlyAfterIgnore ==
    ~scan =>
        /\ (foundVulns # <<>> /\ installCalls # <<>>) =>
              action = "ignore" /\ prompts = 1
        /\ action = "ignore" =>
              installCalls = <<pkgs>> /\ childState # "none" /\ foundVulns # <<>>
        /\ Reported("clean") =>
              installCalls = <<pkgs>> /\ prompts = 0 /\ action = "none"

C11_Witness ==
    /\ ~scan /\ action = "ignore" /\ foundVulns # <<>>
    /\ installCalls = <<pkgs>> /\ childState = "closedOk"

ExplicitInstall == ~scan /\ pkgs # <<>>
AllSettled == slots # <<>> /\ \A i \in 1..Len(slots) : slots[i].state # "pending"

\* A reference resolved when the registry gave its {name, version} pair.
ResolvedOk(slot) == slot.state = "value" /\ slot.name # NoName /\ slot.version # NoVersion

\* The references that resolved, in the order of the arguments.
ExpectedResolved ==
    LET ok == SelectSeq([i \in 1..Len(slots) |-> i], LAMBDA i : ResolvedOk(slots[i]))
    IN  [k \in 1..Len(ok) |-> PackageRef(slots[ok[k]].name, slots[ok[k]].version)]

\* C12: once every registry query has ended, in whatever order, the
\* resolver's output is the sequence of the references that resolved, in
\* the order of the arguments: no longer than the input, with no entry for a
\* reference that failed (unknown package, error, malformed response).
C12_ResolvedInInputOrder ==
    (ExplicitInstall /\ AllSettled) =>
        /\ Len(packagesToCheck) <= Len(pkgs)
        /\ packagesToCheck = ExpectedResolved

\* C13: a run makes exactly one oracle request, never a second one; it spawns
\* npm install at most once and calls npm uninstall at most once; and the
\* oracle request has been made and answered before any install or
\* uninstall call.
C13_OneRequestOneChild ==
    /\ Len(oracleRequests) <= 1
    /\ Len(installCalls) <= 1
    /\ Len(uninstallCalls) <= 1
    /\ pc = "exited" => Len(oracleRequests) = 1
    /\ (installCalls # <<>> \/ uninstallCalls # <<>>) =>
          Len(oracleRequests) = 1 /\ OracleReturned /\ pc # "oracle"

\* The version with its leading range qualifier removed, and nothing else.
StripLeading(v) == IF v # <<>> /\ v[1] \in {"^", "~"} THEN Tail(v) ELSE v

\* C14: the i-th query of the request carries the i-th candidate's name, the
\* ecosystem "npm", and the candidate's version with only a leading "^" or
\* "~" removed (a second qualifier right behind the first is let go too): a
\* "^" or "~" elsewhere in the string stays.
C14_OnlyLeadingQualifierStripped ==
    oracleRequests # <<>> =>
        /\ Len(oracleRequests[1]) = Len(packagesToCheck)
        /\ \A i \in 1..Len(packagesToCheck) :
              /\ oracleRequests[1][i].name = packagesToCheck[i].name
              /\ oracleRequests[1][i].ecosystem = "npm"
              /\ oracleRequests[1][i].version \in
                    { StripLeading(packagesToCheck[i].version),
                      StripLeading(StripLeading(packagesToCheck[i].version)) }

\* The candidate list is the manifest's when --scan is set or no package
\* argument is given, the resolver's output otherwise; it is empty until
\* its source has been read.
CandidateSource ==
    IF scan \/ pkgs = <<>>
    THEN /\ slots = <<>>
         /\ packagesToCheck =
               (IF manifest.kind = "unread" THEN <<>> ELSE extractPkgNames(manifest))
    ELSE /\ manifest.kind = "unread"
         /\ packagesToCheck = (IF AllSettled THEN NonNull(slots) ELSE <<>>)

\* The list sent to the oracle, the list that names the flagged packages and
\* the list the uninstall call is built from are the candidate list.
CandidateUses ==
    /\ oracleRequests # <<>> =>
          /\ Len(oracleRequests[1]) = Len(packagesToCheck)
          /\ \A i \in 1..Len(packagesToCheck) :
                oracleRequests[1][i].name = packagesToCheck[i].name
    /\ \A k \in 1..Len(foundVulns) :
          foundVulns[k].originalPkg.defined =>
              \E i \in 1..Len(packagesToCheck) :
                  /\ foundVulns[k].originalPkg = packagesToCheck[i]
                  /\ Truthy(vulnResults.results[i])
    /\ \A c \in 1..Len(uninstallCalls) :
          Range(uninstallCalls[c]) \subseteq Range(MapNames(packagesToCheck))

CandidateBuilt == pc \notin {"start", "resolving"}

\* C15: the candidate list comes from the manifest when --scan is set or no
\* package argument is given (arguments given with --scan are ignored) and
\* from the resolved arguments otherwise; once built it never changes; and
\* the oracle request, the flagged names and the uninstall call all use it.
C15_CandidateListBuiltOnce ==
    /\ [](CandidateSource /\ CandidateUses)
    /\ [][CandidateBuilt => (CandidateBuilt' /\ packagesToCheck' = packagesToCheck)]_vars

C15_Witness ==
    /\ scan /\ pkgs # <<>> /\ slots = <<>>
    /\ Len(packagesToCheck) = 2
    /\ uninstallCalls # <<>> /\ pc = "exited"

Declares(g, n, v) == \E j \in 1..Len(g) : g[j].name = n /\ g[j].version = v
DeclaresName(g, n) == \E j \in 1..Len(g) : g[j].name = n

\* C16: the manifest reader returns one entry per distinct package name of
\* the two dependency groups, with the development group's version when both
\* declare the name and the declared version string unchanged; when the file
\* cannot be read or parsed it returns the empty list and raises no error
\* (the action goes on with the empty list).
C16_ManifestReader ==
    manifest.kind # "unread" =>
        IF manifest.kind = "ok"
        THEN /\ DistinctNames(packagesToCheck)
             /\ \A n \in Names :
                   (DeclaresName(manifest.dependencies, n)
                      \/ DeclaresName(manifest.devDependencies, n))
                   <=> DeclaresName(packagesToCheck, n)
             /\ \A i \in 1..Len(packagesToCheck) :
                   LET e == packagesToCheck[i] IN
                   IF DeclaresName(manifest.devDependencies, e.name)
                   THEN Declares(manifest.devDependencies, e.name, e.version)
                   ELSE Declares(manifest.dependencies, e.name, e.version)
        ELSE /\ packagesToCheck = <<>>
             /\ Reported("prepared") \/ Reported("noPackages")

C16_Witness ==
    /\ manifest.kind = "ok"
    /\ Len(manifest.dependencies) = 1 /\ Len(manifest.devDependencies) = 1
    /\ manifest.dependencies[1].name = manifest.devDependencies[1].name
    /\ manifest.dependencies[1].version # manifest.devDependencies[1].version
    /\ packagesToCheck = manifest.devDependencies

\* The marker the claim gives a severity: one of the four when the string is
\* exactly the word, the UNKNOWN marker (plain white) for anything else.
ExpectedMarker(severity) ==
    IF severity = <<"CRITICAL">> THEN "bgRed.white.bold"
    ELSE IF severity = <<"HIGH">> THEN "red"
    ELSE IF severity = <<"MODERATE">> THEN "yellow"
    ELSE IF severity = <<"LOW">> THEN "blue"
    ELSE "white"

\* Every record of the response, result after result.
RECURSIVE AllRecords(_)
AllRecords(results) ==
    IF results = <<>> THEN <<>> ELSE results[1].items \o AllRecords(Tail(results))

C18_InstallGetsOriginalArgs ==
    (ExplicitInstall /\ installCalls # <<>>) =>
        /\ installCalls = <<pkgs>>
        /\ AllSettled

C18_Witness ==
    /\ ExplicitInstall /\ Len(pkgs) = 2 /\ Len(slots) = 2
    /\ slots[1].state = "null" /\ slots[2].state = "value"
    /\ Len(packagesToCheck) = 1
    /\ Len(oracleRequests) = 1 /\ Len(oracleRequests[1]) = 1
    /\ installCalls = <<pkgs>>

\* C19: in scan mode, once the operator has chosen "uninstall" and npm
\* uninstall has ended, the process has exited with code 0 whether the
\* command succeeded or failed; a failure is reported, and npm uninstall was
\* called once only.
C19_UninstallExitsZero ==
    (scan /\ action = "uninstall" /\ pc = "exited") =>
        /\ exitCode = 0 /\ ~fault
        /\ Len(uninstallCalls) = 1
        /\ Reported("uninstalled") # Reported("uninstallFailed")

C19_Witness ==
    /\ scan /\ action = "uninstall" /\ pc = "exited"
    /\ Reported("uninstallFailed") /\ exitCode = 0
    /\ Len(uninstallCalls) = 1

====
